---- MODULE Spec2Model ----
(***************************************************************************)
(* PlatformEGLAndroid (filament/backend/src/opengl/platforms):             *)
(* the acquired-image transform and its deferred release callback, the     *)
(* external-image texture binding, and the performance-hint frame pacing.  *)
(* The EGL / GL driver, the heap allocator and the clock are the           *)
(* environment: their results are drawn from small sets.                   *)
(***************************************************************************)
EXTENDS Integers, Sequences, FiniteSets, TLC

\* ------------------------------------------------------------------ bounds
MaxTextureCalls == 2     \* createExternalImageTexture calls in one behaviour
MaxAcquired == 2         \* transformAcquiredImage calls in one behaviour
MaxInvocations == 2      \* times the driver may run one returned callback
MaxFrames == 2           \* beginFrame calls in one behaviour
MaxClock == 3            \* largest clock reading, in model time units
MaxImageCalls == 2       \* acquisition calls of either kind in SpecImage

\* ------------------------------------------------- hardware buffer formats
AllowListedFormats ==
    { "AHARDWAREBUFFER_FORMAT_R8G8B8A8_UNORM",
      "AHARDWAREBUFFER_FORMAT_R8G8B8X8_UNORM",
      "AHARDWAREBUFFER_FORMAT_R8G8B8_UNORM",
      "AHARDWAREBUFFER_FORMAT_R5G6B5_UNORM",
      "AHARDWAREBUFFER_FORMAT_R16G16B16A16_FLOAT",
      "AHARDWAREBUFFER_FORMAT_R10G10B10A2_UNORM",
      "AHARDWAREBUFFER_FORMAT_D16_UNORM",
      "AHARDWAREBUFFER_FORMAT_D24_UNORM",
      "AHARDWAREBUFFER_FORMAT_D24_UNORM_S8_UINT",
      "AHARDWAREBUFFER_FORMAT_D32_FLOAT",
      "AHARDWAREBUFFER_FORMAT_D32_FLOAT_S8_UINT",
      "AHARDWAREBUFFER_FORMAT_S8_UINT" }

\* Formats the switch does not name: documented ones and a vendor YUV value.
UnlistedFormats ==
    { "AHARDWAREBUFFER_FORMAT_BLOB",
      "AHARDWAREBUFFER_FORMAT_Y8Cb8Cr8_420",
      "AHARDWAREBUFFER_FORMAT_YCbCr_P010",
      "AHARDWAREBUFFER_FORMAT_R8_UNORM",
      "YCbCr_420_SP_VENUS_UBWC" }

Formats == AllowListedFormats \cup UnlistedFormats

\* Buffers a stream producer hands to transformAcquiredImage, each by its
\* AHardwareBuffer_Desc as far as the code reads it: the format and the
\* AHARDWAREBUFFER_USAGE_PROTECTED_CONTENT bit of usage. A pointer to one of
\* them is its index here.
StreamBuffers ==
    << [format |-> "AHARDWAREBUFFER_FORMAT_Y8Cb8Cr8_420", protectedContent |-> FALSE],
       [format |-> "AHARDWAREBUFFER_FORMAT_Y8Cb8Cr8_420", protectedContent |-> TRUE],
       [format |-> "AHARDWAREBUFFER_FORMAT_R8G8B8A8_UNORM", protectedContent |-> FALSE] >>

\* ------------------------------------------------------------------- state
VARIABLES
    constructed,                      \* the PlatformEGLAndroid object exists
    ANGLE_FEATURE_OVERRIDES_DISABLED, \* the environment variable: "unset" or its value
    terminated,                       \* terminate() has run
    driverCreated,                    \* createDriver has run
    eglGetNativeClientBufferANDROID,  \* "null" | "resolved" (glext slot)
    mPerformanceHintSession,          \* [valid : BOOLEAN]
    mStartTimeOfActualWork,           \* time point recorded by beginFrame
    now,                              \* clock::now()
    eglImages,                        \* EGLImageKHR handle -> "live" | "destroyed"
    glTextures,                       \* GL texture name -> "allocated" | "deleted"
    externalTextures,                 \* heap of ExternalTexture records
    closures,                         \* heap of Closure records
    acquired,                         \* one entry per transformAcquiredImage call
    call,                             \* the last operation: what it called, what it returned
    nFrames,                          \* beginFrame calls so far
    nTextureCalls,                    \* createExternalImageTexture calls so far
    crashed                           \* the process died (null call, null dereference)

lifecycle == << constructed, ANGLE_FEATURE_OVERRIDES_DISABLED, terminated >>

vars == << constructed, ANGLE_FEATURE_OVERRIDES_DISABLED, terminated, driverCreated, eglGetNativeClientBufferANDROID, mPerformanceHintSession,
           mStartTimeOfActualWork, now, eglImages, glTextures, externalTextures,
           closures, acquired, call, nFrames, nTextureCalls, crashed >>

\* ------------------------------------------------------ values and records
NullPtr == [kind |-> "null", id |-> 0]
HwBufferPtr(b) == [kind |-> "AHardwareBuffer", id |-> b]
EGLImagePtr(i) == [kind |-> "EGLImageKHR", id |-> i]
ClosurePtr(c) == [kind |-> "Closure", id |-> c]

\* "return {}": a default-constructed AcquiredImage
EmptyAcquiredImage ==
    [image |-> NullPtr, callback |-> "null", userData |-> NullPtr, handler |-> "null"]

\* One driver / OS / producer call as the operation issued it.
Ev(fn, target, pname, param, n) ==
    [fn |-> fn, target |-> target, pname |-> pname, param |-> param, n |-> n,
     attrs |-> << >>]

\* eglCreateImageKHR: the client buffer it got (0 is null), the attribute
\* list, and in param what it returned.
EvAttrs(fn, n, attrs, result) ==
    [fn |-> fn, target |-> "", pname |-> "", param |-> result, n |-> n, attrs |-> attrs]

\* call.texture is the ExternalTexture* returned (0 is nullptr), call.image
\* the AcquiredImage returned; call.format, call.protectedContent, call.arg,
\* call.clock and call.frameId are the inputs.
NoCall == [op |-> "none", format |-> "", protectedContent |-> FALSE, arg |-> 0,
           clock |-> 0, frameId |-> 0, trace |-> << >>, texture |-> 0,
           image |-> EmptyAcquiredImage]

\* What the environment variable may hold when the process starts.
ProcessEnvironments == { "unset", "userOverrides", "preferSubmitAtFBOBoundary" }

\* setenv(name, value, overwrite) on the one variable: the new value.
setenv(old, value, overwrite) ==
    IF old = "unset" \/ overwrite THEN value ELSE old

\* Line 125 with its last argument true.
ConstructorEnvironment_Overwriting(old) ==
    setenv(old, "preferSubmitAtFBOBoundary", TRUE)

\* setenv("ANGLE_FEATURE_OVERRIDES_DISABLED", "preferSubmitAtFBOBoundary", false)
ConstructorEnvironment(old) ==
    setenv(old, "preferSubmitAtFBOBoundary", FALSE)

\* The members as the constructor's initialisers leave them.
Members ==
    /\ terminated = FALSE
    /\ driverCreated = FALSE
    /\ eglGetNativeClientBufferANDROID = "null"
    /\ mPerformanceHintSession = [valid |-> FALSE]
    /\ mStartTimeOfActualWork = 0
    /\ now = 0
    /\ eglImages = << >>
    /\ glTextures = << >>
    /\ externalTextures = << >>
    /\ closures = << >>
    /\ acquired = << >>
    /\ call = NoCall
    /\ nFrames = 0
    /\ nTextureCalls = 0
    /\ crashed = FALSE

\* The state after construction.
Init ==
    /\ constructed = TRUE
    /\ ANGLE_FEATURE_OVERRIDES_DISABLED \in
          { ConstructorEnvironment(e) : e \in ProcessEnvironments }
    /\ Members

\* The process before the platform object is constructed.
InitProcess ==
    /\ constructed = FALSE
    /\ ANGLE_FEATURE_OVERRIDES_DISABLED \in ProcessEnvironments
    /\ Members

\* The constructor.
PlatformEGLAndroid ==
    /\ ~constructed
    /\ constructed' = TRUE
    /\ ANGLE_FEATURE_OVERRIDES_DISABLED' =
          ConstructorEnvironment(ANGLE_FEATURE_OVERRIDES_DISABLED)
    /\ call' = [NoCall EXCEPT !.op = "PlatformEGLAndroid"]
    /\ UNCHANGED << terminated, driverCreated, eglGetNativeClientBufferANDROID,
                    mPerformanceHintSession, mStartTimeOfActualWork, now, eglImages,
                    glTextures, externalTextures, closures, acquired, nFrames,
                    nTextureCalls, crashed >>

\* PlatformEGL::terminate destroys the context and ends the display
\* connection (eglTerminate): every image of the display and every texture
\* of the context is gone.
DisplayTerminated(images) == [i \in 1..Len(images) |-> "destroyed"]
ContextDestroyed(textures) == [t \in 1..Len(textures) |-> "deleted"]

terminate ==
    /\ ~crashed
    /\ driverCreated
    /\ ~terminated
    /\ terminated' = TRUE
    /\ eglImages' = DisplayTerminated(eglImages)
    /\ glTextures' = ContextDestroyed(glTextures)
    /\ call' = [NoCall EXCEPT !.op = "terminate"]
    /\ UNCHANGED << constructed, ANGLE_FEATURE_OVERRIDES_DISABLED, driverCreated,
                    eglGetNativeClientBufferANDROID, mPerformanceHintSession,
                    mStartTimeOfActualWork, now, externalTextures, closures,
                    acquired, nFrames, nTextureCalls, crashed >>

\* ------------------------------------------------------------ createDriver
\* The session is valid when the OS hint manager is supported; the proc
\* address is null when the EGL implementation lacks the extension.
createDriver ==
    /\ ~crashed
    /\ constructed /\ ~terminated
    /\ UNCHANGED lifecycle
    /\ ~driverCreated
    /\ \E sessionOk \in BOOLEAN, proc \in {"null", "resolved"} :
          /\ mPerformanceHintSession' = [valid |-> sessionOk]
          /\ eglGetNativeClientBufferANDROID' = proc
    /\ driverCreated' = TRUE
    /\ call' = [NoCall EXCEPT !.op = "createDriver"]
    /\ UNCHANGED << mStartTimeOfActualWork, now, eglImages, glTextures,
                    externalTextures, closures, acquired, nFrames, nTextureCalls,
                    crashed >>

\* ------------------------------------------- createExternalImageTexture
\* The switch with the S8_UINT label lost.
isExternalFormat_WithoutS8(format) ==
    format \notin { "AHARDWAREBUFFER_FORMAT_R8G8B8A8_UNORM",
                    "AHARDWAREBUFFER_FORMAT_R8G8B8X8_UNORM",
                    "AHARDWAREBUFFER_FORMAT_R8G8B8_UNORM",
                    "AHARDWAREBUFFER_FORMAT_R5G6B5_UNORM",
                    "AHARDWAREBUFFER_FORMAT_R16G16B16A16_FLOAT",
                    "AHARDWAREBUFFER_FORMAT_R10G10B10A2_UNORM",
                    "AHARDWAREBUFFER_FORMAT_D16_UNORM",
                    "AHARDWAREBUFFER_FORMAT_D24_UNORM",
                    "AHARDWAREBUFFER_FORMAT_D24_UNORM_S8_UINT",
                    "AHARDWAREBUFFER_FORMAT_D32_FLOAT",
                    "AHARDWAREBUFFER_FORMAT_D32_FLOAT_S8_UINT" }

\* The switch at lines 225-240: FALSE for the formats it names.
isExternalFormat(format) ==
    CASE format = "AHARDWAREBUFFER_FORMAT_R8G8B8A8_UNORM" -> FALSE
      [] format = "AHARDWAREBUFFER_FORMAT_R8G8B8X8_UNORM" -> FALSE
      [] format = "AHARDWAREBUFFER_FORMAT_R8G8B8_UNORM" -> FALSE
      [] format = "AHARDWAREBUFFER_FORMAT_R5G6B5_UNORM" -> FALSE
      [] format = "AHARDWAREBUFFER_FORMAT_R16G16B16A16_FLOAT" -> FALSE
      [] format = "AHARDWAREBUFFER_FORMAT_R10G10B10A2_UNORM" -> FALSE
      [] format = "AHARDWAREBUFFER_FORMAT_D16_UNORM" -> FALSE
      [] format = "AHARDWAREBUFFER_FORMAT_D24_UNORM" -> FALSE
      [] format = "AHARDWAREBUFFER_FORMAT_D24_UNORM_S8_UINT" -> FALSE
      [] format = "AHARDWAREBUFFER_FORMAT_D32_FLOAT" -> FALSE
      [] format = "AHARDWAREBUFFER_FORMAT_D32_FLOAT_S8_UINT" -> FALSE
      [] format = "AHARDWAREBUFFER_FORMAT_S8_UINT" -> FALSE
      [] OTHER -> TRUE

\* auto target = isExternalFormat ? GL_TEXTURE_EXTERNAL_OES : GL_TEXTURE_2D;
TextureTarget(external) ==
    IF external THEN "GL_TEXTURE_EXTERNAL_OES" ELSE "GL_TEXTURE_2D"

\* imageAttrs[] up to the first EGL_NONE; isSrgbTransfer is the constant
\* false and the protected-content lines are commented out in the source.
isSrgbTransfer == FALSE

TextureImageAttrs ==
    << "EGL_IMAGE_PRESERVED_KHR", "EGL_TRUE" >>
    \o (IF isSrgbTransfer THEN << "EGL_GL_COLORSPACE", "EGL_GL_COLORSPACE_SRGB" >>
                          ELSE << >>)

\* What the driver answers during one call; an answer the call never asks
\* for (it returned earlier) is left FALSE.
TextureEnv ==
    { e \in [allocOk : BOOLEAN, clientBufferOk : BOOLEAN, createOk : BOOLEAN,
             bindError : BOOLEAN, attachError : BOOLEAN, mipError : BOOLEAN] :
        /\ ~e.allocOk => ~e.clientBufferOk
        /\ ~e.clientBufferOk => ~e.createOk
        /\ ~e.createOk => ~e.bindError
        /\ (~e.createOk \/ e.bindError) => (~e.attachError /\ ~e.mipError) }

\* eglCreateImageKHR yields an image only from a non-null client buffer.
ImageCreated(env) == env.clientBufferOk /\ env.createOk

\* glGetError() as the driver answers it.
GetError(failed) ==
    Ev("glGetError", "", "", IF failed THEN "GL_INVALID_OPERATION" ELSE "GL_NO_ERROR", 0)

\* The mipmap block with its if (!isExternalFormat) guard lost.
MipmapSetup_Unguarded(external, env) ==
    << Ev("glTexParameteri", "GL_TEXTURE_2D", "GL_TEXTURE_MIN_FILTER",
          "GL_LINEAR_MIPMAP_LINEAR", 0),
       Ev("glTexParameteri", "GL_TEXTURE_2D", "GL_TEXTURE_MAG_FILTER", "GL_LINEAR", 0),
       Ev("glGenerateMipmap", "GL_TEXTURE_2D", "", "", 0),
       GetError(env.mipError) >>

\* The mipmap block of lines 291-300; its error is logged only.
MipmapSetup(external, env) ==
    IF ~external
    THEN << Ev("glTexParameteri", "GL_TEXTURE_2D", "GL_TEXTURE_MIN_FILTER",
               "GL_LINEAR_MIPMAP_LINEAR", 0),
            Ev("glTexParameteri", "GL_TEXTURE_2D", "GL_TEXTURE_MAG_FILTER",
               "GL_LINEAR", 0),
            Ev("glGenerateMipmap", "GL_TEXTURE_2D", "", "", 0),
            GetError(env.mipError) >>
    ELSE << >>

\* The error branch of lines 278-284.
BindRollback(img, name) ==
    << Ev("glDeleteTextures", "", "", "", name),
       Ev("eglDestroyImageKHR", "", "", "", img),
       Ev("delete outTexture", "", "", "", 0) >>

\* Lines 285-289: attach the image; the error is logged only.
AttachImage(target, img, env) ==
    << Ev("glEGLImageTargetTexture2DOES", target, "", "", img),
       GetError(env.attachError) >>

\* The calls of lines 244-301 in order, for a record that was allocated:
\* img is the handle eglCreateImageKHR would return, name the texture name
\* glGenTextures would return.
TextureTrace(format, env, img, name) ==
    LET external == isExternalFormat(format)
        target == TextureTarget(external)
        create == << Ev("eglGetNativeClientBufferANDROID", "", "", "",
                        IF env.clientBufferOk THEN 1 ELSE 0),
                     EvAttrs("eglCreateImageKHR",
                             IF env.clientBufferOk THEN 1 ELSE 0, TextureImageAttrs,
                             IF ImageCreated(env) THEN "EGLImageKHR"
                             ELSE "EGL_NO_IMAGE_KHR") >>
        bind == << Ev("glGenTextures", "", "", "", name),
                   Ev("glActiveTexture", "GL_TEXTURE0", "", "", 0),
                   Ev("glBindTexture", target, "", "", name),
                   GetError(env.bindError) >>
    IN  IF ~ImageCreated(env)
        THEN create \o << Ev("delete outTexture", "", "", "", 0) >>
        ELSE IF env.bindError
        THEN create \o bind \o BindRollback(img, name)
        ELSE create \o bind \o AttachImage(target, img, env)
                    \o MipmapSetup(external, env)

HasCall(trace, fn) == \E i \in 1..Len(trace) : trace[i].fn = fn

\* outTexture->target = target (line 301)
StoredTarget(format) == TextureTarget(isExternalFormat(format))

createExternalImageTexture ==
    /\ ~crashed
    /\ ~terminated
    /\ UNCHANGED lifecycle
    /\ driverCreated
    /\ nTextureCalls < MaxTextureCalls
    /\ nTextureCalls' = nTextureCalls + 1
    /\ \E format \in Formats, protectedContent \in BOOLEAN, env \in TextureEnv :
        IF ~env.allocOk
        THEN \* new(std::nothrow) returned nullptr
             /\ call' = [NoCall EXCEPT !.op = "createExternalImageTexture",
                                       !.format = format,
                                       !.protectedContent = protectedContent]
             /\ UNCHANGED << eglImages, glTextures, externalTextures, crashed >>
        ELSE IF eglGetNativeClientBufferANDROID = "null"
        THEN \* call through a null function pointer
             /\ crashed' = TRUE
             /\ call' = [NoCall EXCEPT !.op = "createExternalImageTexture",
                                       !.format = format,
                                       !.protectedContent = protectedContent]
             /\ externalTextures' = Append(externalTextures,
                    [id |-> 0, target |-> "", state |-> "live"])
             /\ UNCHANGED << eglImages, glTextures >>
        ELSE LET img == Len(eglImages) + 1
                 name == Len(glTextures) + 1
                 trace == TextureTrace(format, env, img, name)
                 freed == HasCall(trace, "delete outTexture")
             IN  /\ eglImages' =
                        IF ~ImageCreated(env) THEN eglImages
                        ELSE Append(eglImages,
                                    IF HasCall(trace, "eglDestroyImageKHR")
                                    THEN "destroyed" ELSE "live")
                 /\ glTextures' =
                        IF ~HasCall(trace, "glGenTextures") THEN glTextures
                        ELSE Append(glTextures,
                                    IF HasCall(trace, "glDeleteTextures")
                                    THEN "deleted" ELSE "allocated")
                 /\ externalTextures' = Append(externalTextures,
                        IF freed
                        THEN [id |-> IF HasCall(trace, "glGenTextures") THEN name ELSE 0,
                              target |-> "", state |-> "freed"]
                        ELSE [id |-> name, target |-> StoredTarget(format),
                              state |-> "live"])
                 /\ call' = [NoCall EXCEPT !.op = "createExternalImageTexture",
                                           !.format = format,
                                           !.protectedContent = protectedContent,
                                           !.trace = trace,
                                           !.texture = IF freed THEN 0
                                                       ELSE Len(externalTextures) + 1]
                 /\ UNCHANGED crashed
    /\ UNCHANGED << driverCreated, eglGetNativeClientBufferANDROID,
                    mPerformanceHintSession, mStartTimeOfActualWork, now,
                    closures, acquired, nFrames >>

\* ------------------------------------------------ transformAcquiredImage
\* The AcquiredImage values a producer hands in: {image, callback, userData,
\* handler}; the user data of a buffer is numbered like the buffer.
Handlers == { "handlerA", "handlerB" }

SourceImages ==
    { [image |-> HwBufferPtr(b), callback |-> "producerCallback",
       userData |-> [kind |-> "userData", id |-> b], handler |-> h] :
      b \in 1..Len(StreamBuffers), h \in Handlers }

\* AHardwareBuffer_describe
AHardwareBuffer_describe(ptr) == StreamBuffers[ptr.id]

\* What the driver and the allocator answer during one call.
AcquireEnv == [clientBufferOk : BOOLEAN, createOk : BOOLEAN, allocOk : BOOLEAN]

\* A default-constructed PlatformEGL::Config: the generic EGL attribute
\* list, holding its EGL_NONE terminator only.
DefaultConfig == << >>

\* PlatformEGL::Config attributes, as filled at lines 342-352;
\* __builtin_available(android 26, *) holds on every supported build.
TransformImageAttrs(desc) ==
    DefaultConfig
    \o (IF desc.protectedContent THEN << "EGL_PROTECTED_CONTENT_EXT", "EGL_TRUE" >>
                                 ELSE << >>)

\* Closure(source, mEGLDisplay), or nullptr from new(std::nothrow)
NewClosure(source) ==
    [acquiredImage |-> source, display |-> "mEGLDisplay", state |-> "live"]

\* return { eglImage, patchedCallback, closure, source.handler };
PatchedImage(source, img, closurePtr) ==
    [image |-> EGLImagePtr(img), callback |-> "patchedCallback",
     userData |-> closurePtr, handler |-> source.handler]

\* The return of line 378 reached although eglCreateImageKHR gave no image.
TransformResult_IgnoresCreateFailure(source, env, img, c) ==
    IF ~env.clientBufferOk THEN EmptyAcquiredImage
    ELSE PatchedImage(source, img, IF env.allocOk THEN ClosurePtr(c) ELSE NullPtr)

\* The value the call returns: img is the handle eglCreateImageKHR would
\* return, c the address the allocator would return.
TransformResult(source, env, img, c) ==
    IF ~env.clientBufferOk THEN EmptyAcquiredImage
    ELSE IF ~env.createOk THEN EmptyAcquiredImage
    ELSE PatchedImage(source, img, IF env.allocOk THEN ClosurePtr(c) ELSE NullPtr)

\* The calls of lines 336-368 in order.
TransformTrace(source, env, img) ==
    LET get == << Ev("eglGetNativeClientBufferANDROID", "", "", "",
                     IF env.clientBufferOk THEN 1 ELSE 0) >>
        create == << EvAttrs("eglCreateImageKHR", 1,
                             TransformImageAttrs(AHardwareBuffer_describe(source.image)),
                             IF env.createOk THEN "EGLImageKHR"
                             ELSE "EGL_NO_IMAGE_KHR") >>
        alloc == << Ev("new Closure", "", "", "", IF env.allocOk THEN 1 ELSE 0) >>
    IN  IF ~env.clientBufferOk THEN get
        ELSE IF ~env.createOk THEN get \o create
        ELSE get \o create \o alloc

transformAcquiredImage ==
    /\ ~crashed
    /\ ~terminated
    /\ UNCHANGED lifecycle
    /\ driverCreated
    /\ Len(acquired) < MaxAcquired
    /\ \E source \in SourceImages, env \in AcquireEnv :
        IF eglGetNativeClientBufferANDROID = "null"
        THEN \* call through a null function pointer
             /\ crashed' = TRUE
             /\ acquired' = Append(acquired,
                    [source |-> source, result |-> EmptyAcquiredImage,
                     returned |-> FALSE, invocations |-> 0, released |-> 0])
             /\ call' = [NoCall EXCEPT !.op = "transformAcquiredImage"]
             /\ UNCHANGED << eglImages, closures >>
        ELSE LET img == Len(eglImages) + 1
                 c == Len(closures) + 1
                 trace == TransformTrace(source, env, img)
                 result == TransformResult(source, env, img, c)
             IN  /\ eglImages' = IF HasCall(trace, "eglCreateImageKHR") /\ env.createOk
                                 THEN Append(eglImages, "live") ELSE eglImages
                 /\ closures' = IF HasCall(trace, "new Closure") /\ env.allocOk
                                THEN Append(closures, NewClosure(source)) ELSE closures
                 /\ acquired' = Append(acquired,
                        [source |-> source, result |-> result,
                         returned |-> TRUE, invocations |-> 0, released |-> 0])
                 /\ call' = [NoCall EXCEPT !.op = "transformAcquiredImage",
                                           !.arg = Len(acquired) + 1,
                                           !.trace = trace,
                                           !.image = result]
                 /\ UNCHANGED crashed
    /\ UNCHANGED << driverCreated, eglGetNativeClientBufferANDROID,
                    mPerformanceHintSession, mStartTimeOfActualWork, now,
                    glTextures, externalTextures, nFrames, nTextureCalls >>

\* --------------------------------------------------------- patchedCallback
\* eglDestroyImageKHR succeeds on a live image of the display and fails
\* (EGL_BAD_PARAMETER) on a handle that is no longer one.
DestroyResult(images, image) ==
    IF image.kind = "EGLImageKHR" /\ image.id \in 1..Len(images)
       /\ images[image.id] = "live"
    THEN "EGL_TRUE" ELSE "EGL_FALSE"

\* The body of the lambda with the producer told first.
PatchedCallbackTrace_ReleaseFirst(image, userdata, closure, images) ==
    << [fn |-> "callback", image |-> closure.acquiredImage.image,
        userData |-> closure.acquiredImage.userData,
        callee |-> closure.acquiredImage.callback],
       [fn |-> "eglDestroyImageKHR", display |-> closure.display, image |-> image,
        result |-> DestroyResult(images, image)],
       [fn |-> "delete closure", closure |-> userdata] >>

\* The body of the lambda handing the producer the lambda's own arguments.
PatchedCallbackTrace_PassesOwnArguments(image, userdata, closure, images) ==
    << [fn |-> "eglDestroyImageKHR", display |-> closure.display, image |-> image,
        result |-> DestroyResult(images, image)],
       [fn |-> "callback", image |-> image, userData |-> userdata,
        callee |-> closure.acquiredImage.callback],
       [fn |-> "delete closure", closure |-> userdata] >>

\* The body of the lambda giving up when eglDestroyImageKHR fails.
PatchedCallbackTrace_StopsOnDestroyFailure(image, userdata, closure, images) ==
    IF DestroyResult(images, image) = "EGL_FALSE"
    THEN << [fn |-> "eglDestroyImageKHR", display |-> closure.display,
             image |-> image, result |-> "EGL_FALSE"] >>
    ELSE << [fn |-> "eglDestroyImageKHR", display |-> closure.display,
             image |-> image, result |-> "EGL_TRUE"],
            [fn |-> "callback", image |-> closure.acquiredImage.image,
             userData |-> closure.acquiredImage.userData,
             callee |-> closure.acquiredImage.callback],
            [fn |-> "delete closure", closure |-> userdata] >>

\* The body of the lambda (lines 370-375) run on the record closure holds:
\* destroy the image, call the producer, free the record.
PatchedCallbackTrace(image, userdata, closure, images) ==
    << [fn |-> "eglDestroyImageKHR", display |-> closure.display, image |-> image,
        result |-> DestroyResult(images, image)],
       [fn |-> "callback", image |-> closure.acquiredImage.image,
        userData |-> closure.acquiredImage.userData,
        callee |-> closure.acquiredImage.callback],
       [fn |-> "delete closure", closure |-> userdata] >>

\* The state the calls of a trace leave behind, read off the trace in order.
ImagesAfter(images, trace) ==
    [i \in 1..Len(images) |->
        IF \E j \in 1..Len(trace) :
              /\ trace[j].fn = "eglDestroyImageKHR"
              /\ trace[j].image = EGLImagePtr(i)
        THEN "destroyed" ELSE images[i]]

ClosuresAfter(heap, trace) ==
    [c \in 1..Len(heap) |->
        IF \E j \in 1..Len(trace) :
              /\ trace[j].fn = "delete closure"
              /\ trace[j].closure = ClosurePtr(c)
        THEN [heap[c] EXCEPT !.state = "freed"] ELSE heap[c]]

ProducerCalls(trace) ==
    Cardinality({ j \in 1..Len(trace) :
                    trace[j].fn = "callback" /\ trace[j].callee = "producerCallback" })

\* Reading a freed Closure is undefined: the process dies, or the freed
\* memory still holds the record and the body runs on it again.
UseAfterFree == { "crash", "stale" }

\* The driver runs the callback of the k-th returned AcquiredImage with the
\* image and user data of that AcquiredImage.
patchedCallback(k) ==
    /\ ~crashed
    /\ UNCHANGED lifecycle
    /\ acquired[k].returned
    /\ acquired[k].result.callback = "patchedCallback"
    /\ acquired[k].invocations < MaxInvocations
    /\ LET image == acquired[k].result.image
           userdata == acquired[k].result.userData
           run(trace) ==
               /\ eglImages' = ImagesAfter(eglImages, trace)
               /\ closures' = ClosuresAfter(closures, trace)
               /\ acquired' = [acquired EXCEPT
                     ![k].invocations = @ + 1,
                     ![k].released = @ + ProducerCalls(trace)]
               /\ call' = [NoCall EXCEPT !.op = "patchedCallback", !.arg = k,
                                         !.trace = trace]
               /\ UNCHANGED crashed
           die ==
               /\ crashed' = TRUE
               /\ acquired' = [acquired EXCEPT ![k].invocations = @ + 1]
               /\ call' = [NoCall EXCEPT !.op = "patchedCallback", !.arg = k]
               /\ UNCHANGED << eglImages, closures >>
       IN  IF userdata.kind = "null"
           THEN die      \* closure->display through a null pointer
           ELSE IF closures[userdata.id].state = "live"
           THEN run(PatchedCallbackTrace(image, userdata, closures[userdata.id],
                                         eglImages))
           ELSE \E outcome \in UseAfterFree :
                   IF outcome = "crash" THEN die
                   ELSE run(PatchedCallbackTrace(image, userdata,
                                                 closures[userdata.id], eglImages))
    /\ UNCHANGED << driverCreated, eglGetNativeClientBufferANDROID,
                    mPerformanceHintSession, mStartTimeOfActualWork, now,
                    glTextures, externalTextures, nFrames, nTextureCalls >>

invokeCallback == \E k \in 1..Len(acquired) : patchedCallback(k)

NextAcquire == createDriver \/ transformAcquiredImage \/ invokeCallback \/ terminate

SpecAcquire == Init /\ [][NextAcquire]_vars

\* ------------------------------------------------ beginFrame / preCommit
\* "assume 16.67ms"
DefaultTargetNs == 16666667

\* Refresh intervals and frame ids a caller passes (int64_t, uint32_t).
Intervals == { -1, 0, 1, 8333333, DefaultTargetNs }
FrameIds == { 1, 2 }

\* The defaulting with < in place of <=.
TargetWorkDuration_NegativeOnly(refreshIntervalNs) ==
    IF refreshIntervalNs < 0 THEN DefaultTargetNs ELSE refreshIntervalNs

\* Lines 141-144: the interval after the defaulting.
TargetWorkDuration(refreshIntervalNs) ==
    IF refreshIntervalNs <= 0 THEN DefaultTargetNs ELSE refreshIntervalNs

\* Line 148 passing on the interval the caller supplied.
ForwardedInterval_AsSupplied(valid, refreshIntervalNs) == refreshIntervalNs

\* The interval passed on to PlatformEGL::beginFrame (line 148): the
\* parameter, which the valid-session branch may have overwritten.
ForwardedInterval(valid, refreshIntervalNs) ==
    IF valid THEN TargetWorkDuration(refreshIntervalNs) ELSE refreshIntervalNs

\* beginFrame with the isValid() test lost.
BeginFrameTrace_Unchecked(valid, monotonic_clock_ns, refreshIntervalNs, frameId) ==
    << [fn |-> "updateTargetWorkDuration",
        n |-> TargetWorkDuration(refreshIntervalNs)],
       [fn |-> "PlatformEGL::beginFrame", clock |-> monotonic_clock_ns,
        interval |-> TargetWorkDuration(refreshIntervalNs), frameId |-> frameId] >>

BeginFrameTrace(valid, monotonic_clock_ns, refreshIntervalNs, frameId) ==
    (IF valid
     THEN << [fn |-> "updateTargetWorkDuration",
              n |-> TargetWorkDuration(refreshIntervalNs)] >>
     ELSE << >>)
    \o << [fn |-> "PlatformEGL::beginFrame", clock |-> monotonic_clock_ns,
           interval |-> ForwardedInterval(valid, refreshIntervalNs),
           frameId |-> frameId] >>

beginFrame ==
    /\ ~crashed
    /\ ~terminated
    /\ UNCHANGED lifecycle
    /\ driverCreated
    /\ nFrames < MaxFrames
    /\ nFrames' = nFrames + 1
    /\ \E monotonic_clock_ns \in 0..MaxClock, refreshIntervalNs \in Intervals,
          frameId \in FrameIds :
          /\ mStartTimeOfActualWork' =
                IF mPerformanceHintSession.valid THEN monotonic_clock_ns
                ELSE mStartTimeOfActualWork
          /\ call' = [NoCall EXCEPT
                !.op = "beginFrame",
                !.arg = refreshIntervalNs,
                !.clock = monotonic_clock_ns,
                !.frameId = frameId,
                !.trace = BeginFrameTrace(mPerformanceHintSession.valid,
                              monotonic_clock_ns, refreshIntervalNs, frameId)]
    /\ UNCHANGED << driverCreated, eglGetNativeClientBufferANDROID,
                    mPerformanceHintSession, now, eglImages, glTextures,
                    externalTextures, closures, acquired, nTextureCalls, crashed >>

\* clock::now() - mStartTimeOfActualWork, in nanoseconds
ActualWorkDuration(clockNow, start) == clockNow - start

PreCommitTrace(valid, clockNow, start) ==
    (IF valid
     THEN << [fn |-> "reportActualWorkDuration",
              n |-> ActualWorkDuration(clockNow, start)] >>
     ELSE << >>)
    \o << [fn |-> "PlatformEGL::preCommit"] >>

preCommit ==
    /\ ~crashed
    /\ ~terminated
    /\ UNCHANGED lifecycle
    /\ driverCreated
    /\ call' = [NoCall EXCEPT
          !.op = "preCommit",
          !.arg = now,
          !.trace = PreCommitTrace(mPerformanceHintSession.valid, now,
                                   mStartTimeOfActualWork)]
    /\ UNCHANGED << driverCreated, eglGetNativeClientBufferANDROID,
                    mPerformanceHintSession, mStartTimeOfActualWork, now, eglImages,
                    glTextures, externalTextures, closures, acquired, nFrames,
                    nTextureCalls, crashed >>

\* The clock advances between calls.
Tick ==
    /\ ~crashed
    /\ UNCHANGED lifecycle
    /\ now < MaxClock
    /\ now' = now + 1
    /\ UNCHANGED << driverCreated, eglGetNativeClientBufferANDROID,
                    mPerformanceHintSession, mStartTimeOfActualWork, eglImages,
                    glTextures, externalTextures, closures, acquired, call, nFrames,
                    nTextureCalls, crashed >>

NextFrame == createDriver \/ beginFrame \/ preCommit \/ Tick

SpecFrame == Init /\ [][NextFrame]_vars

NextTexture == createDriver \/ createExternalImageTexture

SpecTexture == Init /\ [][NextTexture]_vars

\* Both acquisition operations, MaxImageCalls calls between them.
ImageCallsLeft == Len(acquired) + nTextureCalls < MaxImageCalls

NextImage ==
    \/ createDriver
    \/ ImageCallsLeft /\ createExternalImageTexture
    \/ ImageCallsLeft /\ transformAcquiredImage

SpecImage == Init /\ [][NextImage]_vars

\* The object from before its construction, with the frame operations.
NextLifecycle ==
    PlatformEGLAndroid \/ createDriver \/ beginFrame \/ preCommit \/ Tick \/ terminate

SpecLifecycle == InitProcess /\ [][NextLifecycle]_vars

\* ================================================================= claims

\* The acquisition the last call was about, and a call that completed every
\* step: an image was created and the Closure was allocated.
Succeeded(k) ==
    /\ acquired[k].returned
    /\ acquired[k].result.callback = "patchedCallback"
    /\ acquired[k].result.userData.kind = "Closure"

Position(trace, fn) == CHOOSE i \in 1..Len(trace) : trace[i].fn = fn

\* C1: after the callback returned by a successful transformAcquiredImage has
\* run once, the last call's trace holds eglDestroyImageKHR on the returned
\* image, then the producer's callback (once), then the delete of the
\* closure, in that order; the image is destroyed, the producer was called
\* once and the closure is freed.
C1_DestroyThenReleaseThenFree ==
    \A k \in 1..Len(acquired) :
        (Succeeded(k) /\ acquired[k].invocations = 1) =>
            /\ acquired[k].released = 1
            /\ eglImages[acquired[k].result.image.id] = "destroyed"
            /\ closures[acquired[k].result.userData.id].state = "freed"
            /\ (call.op = "patchedCallback" /\ call.arg = k) =>
                  LET t == call.trace IN
                  /\ Cardinality({ i \in 1..Len(t) : t[i].fn = "callback" }) = 1
                  /\ Cardinality({ i \in 1..Len(t) : t[i].fn = "eglDestroyImageKHR" }) = 1
                  /\ Cardinality({ i \in 1..Len(t) : t[i].fn = "delete closure" }) = 1
                  /\ t[Position(t, "eglDestroyImageKHR")].image = acquired[k].result.image
                  /\ t[Position(t, "callback")].callee = "producerCallback"
                  /\ Position(t, "eglDestroyImageKHR") < Position(t, "callback")
                  /\ Position(t, "callback") < Position(t, "delete closure")

C1_Witness ==
    /\ call.op = "patchedCallback"
    /\ Succeeded(call.arg)
    /\ acquired[call.arg].invocations = 1
    /\ acquired[call.arg].released = 1
    /\ Len(call.trace) = 3

\* A glGetError of the last call that reported an error.
ErrorReported ==
    \E i \in 1..Len(call.trace) :
        call.trace[i].fn = "glGetError" /\ call.trace[i].param # "GL_NO_ERROR"

\* The texture name and the image the last createExternalImageTexture made.
NameOfCall == call.trace[Position(call.trace, "glGenTextures")].n
ImageOfCall == Len(eglImages)

\* C2: a createExternalImageTexture call in which any glGetError after the
\* image creation reported an error returned nullptr, deleted the texture
\* name and destroyed the image.
C2_AnyGlErrorRollsBack ==
    (call.op = "createExternalImageTexture" /\ ErrorReported) =>
        /\ call.texture = 0
        /\ glTextures[NameOfCall] = "deleted"
        /\ eglImages[ImageOfCall] = "destroyed"

\* C3: once a transformAcquiredImage call has returned and the callback of
\* the AcquiredImage it returned (if it has one) has run, the producer's
\* callback has run exactly once; it has never run more than once while the
\* driver ran the returned callback at most once, and the image made from the
\* buffer is not live once the producer was called.
C3_ReleasedExactlyOnce ==
    \A k \in 1..Len(acquired) :
        (acquired[k].returned /\ acquired[k].invocations <= 1) =>
            /\ acquired[k].released <= 1
            /\ (acquired[k].result.callback = "null" \/ acquired[k].invocations = 1)
                  => acquired[k].released = 1
            /\ (acquired[k].released = 1 /\ acquired[k].result.image.kind = "EGLImageKHR")
                  => eglImages[acquired[k].result.image.id] # "live"

\* C4: a call whose auxiliary record could not be allocated returns failure
\* with nothing left behind: transformAcquiredImage returns the empty
\* AcquiredImage and the image it created is destroyed;
\* createExternalImageTexture returns nullptr having called nothing.
C4_AllocationFailureRollsBack ==
    /\ (/\ call.op = "transformAcquiredImage"
        /\ \E i \in 1..Len(call.trace) :
              call.trace[i].fn = "new Closure" /\ call.trace[i].n = 0)
          => /\ call.image = EmptyAcquiredImage
             /\ eglImages[Len(eglImages)] = "destroyed"
    /\ (call.op = "createExternalImageTexture" /\ call.trace = << >> /\ ~crashed)
          => call.texture = 0

\* C5: a second run of a returned callback is rejected: it calls nothing
\* (no second destroy, no second producer callback), reads no freed closure
\* (so it cannot kill the process), and the producer is called once at most.
C5_SecondInvocationRejected ==
    \A k \in 1..Len(acquired) :
        acquired[k].invocations >= 2 =>
            /\ acquired[k].released <= 1
            /\ (call.op = "patchedCallback" /\ call.arg = k)
                  => (call.trace = << >> /\ ~crashed)

\* C6: every driver image ever created is destroyed or is the image of a
\* returned AcquiredImage whose Closure is live (and so will destroy it).
OwnedByLiveClosure(i) ==
    \E k \in 1..Len(acquired) :
        /\ acquired[k].result.image = EGLImagePtr(i)
        /\ acquired[k].result.userData.kind = "Closure"
        /\ closures[acquired[k].result.userData.id].state = "live"

C6_NoOrphanImage ==
    \A i \in 1..Len(eglImages) :
        eglImages[i] = "destroyed" \/ OwnedByLiveClosure(i)

\* C7: an acquisition operation that finds eglGetNativeClientBufferANDROID
\* unresolved, or gets a null client buffer from it, returns failure at once:
\* the process survives, eglCreateImageKHR and glGenTextures are not called.
NullClientBuffer ==
    \E i \in 1..Len(call.trace) :
        call.trace[i].fn = "eglGetNativeClientBufferANDROID" /\ call.trace[i].n = 0

C7_NoClientBufferFailsAtOnce ==
    call.op \in { "transformAcquiredImage", "createExternalImageTexture" } =>
        /\ ~crashed
        /\ NullClientBuffer =>
              /\ ~HasCall(call.trace, "eglCreateImageKHR")
              /\ ~HasCall(call.trace, "glGenTextures")
              /\ call.texture = 0
              /\ call.image = EmptyAcquiredImage

\* C8: the record createExternalImageTexture returns has target GL_TEXTURE_2D
\* exactly for the twelve allow-listed formats and GL_TEXTURE_EXTERNAL_OES
\* for every other format, and glBindTexture and
\* glEGLImageTargetTexture2DOES of that call used the same target.
C8_TargetFollowsAllowList ==
    (call.op = "createExternalImageTexture" /\ call.texture # 0) =>
        LET rec == externalTextures[call.texture]
            t == call.trace
        IN  /\ Cardinality(AllowListedFormats) = 12
            /\ rec.state = "live"
            /\ rec.target = "GL_TEXTURE_2D" <=> call.format \in AllowListedFormats
            /\ rec.target = "GL_TEXTURE_EXTERNAL_OES"
                  <=> call.format \notin AllowListedFormats
            /\ HasCall(t, "glBindTexture")
            /\ HasCall(t, "glEGLImageTargetTexture2DOES")
            /\ \A i \in 1..Len(t) :
                  t[i].fn \in { "glBindTexture", "glEGLImageTargetTexture2DOES" }
                     => t[i].target = rec.target

C8_Witness ==
    /\ call.op = "createExternalImageTexture"
    /\ call.texture # 0
    /\ call.format = "AHARDWAREBUFFER_FORMAT_D32_FLOAT_S8_UINT"
    /\ externalTextures[call.texture].target = "GL_TEXTURE_2D"
    /\ \E j \in 1..Len(externalTextures) :
          externalTextures[j].target = "GL_TEXTURE_EXTERNAL_OES"

\* The target the last call bound its texture to, and whether that binding
\* went through (the glGetError after glBindTexture reported no error).
Bound(target) ==
    \E i \in 1..Len(call.trace) :
        call.trace[i].fn = "glBindTexture" /\ call.trace[i].target = target

BindSucceeded ==
    \E i \in 1..Len(call.trace) - 1 :
        /\ call.trace[i].fn = "glBindTexture"
        /\ call.trace[i + 1].fn = "glGetError"
        /\ call.trace[i + 1].param = "GL_NO_ERROR"

Issued(fn, pname, param) ==
    { i \in 1..Len(call.trace) :
        /\ call.trace[i].fn = fn
        /\ call.trace[i].target = "GL_TEXTURE_2D"
        /\ call.trace[i].pname = pname
        /\ call.trace[i].param = param }

\* C9: a createExternalImageTexture call on a buffer classified as opaque
\* (an unlisted format, bound to GL_TEXTURE_EXTERNAL_OES) issues no
\* glTexParameteri and no glGenerateMipmap; a call that bound a non-opaque
\* buffer (GL_TEXTURE_2D, glBindTexture without error) issues the
\* linear-mipmap-linear min filter, the linear mag filter and
\* glGenerateMipmap, once each and in that order.
C9_MipmapOnlyForTexture2D ==
    call.op = "createExternalImageTexture" =>
        /\ (call.format \notin AllowListedFormats \/ Bound("GL_TEXTURE_EXTERNAL_OES")) =>
              /\ ~HasCall(call.trace, "glTexParameteri")
              /\ ~HasCall(call.trace, "glGenerateMipmap")
        /\ (Bound("GL_TEXTURE_2D") /\ BindSucceeded) =>
              LET min == Issued("glTexParameteri", "GL_TEXTURE_MIN_FILTER",
                                "GL_LINEAR_MIPMAP_LINEAR")
                  mag == Issued("glTexParameteri", "GL_TEXTURE_MAG_FILTER", "GL_LINEAR")
                  mip == Issued("glGenerateMipmap", "", "")
              IN  /\ Cardinality(min) = 1
                  /\ Cardinality(mag) = 1
                  /\ Cardinality(mip) = 1
                  /\ \A a \in min, b \in mag, c \in mip : a < b /\ b < c

C9_Witness ==
    /\ call.op = "createExternalImageTexture"
    /\ Bound("GL_TEXTURE_2D")
    /\ BindSucceeded
    /\ HasCall(call.trace, "glGenerateMipmap")
    /\ nTextureCalls = 2
    /\ \E j \in 1..Len(externalTextures) :
          externalTextures[j].target = "GL_TEXTURE_EXTERNAL_OES"

\* C10: with a valid session, beginFrame calls updateTargetWorkDuration once,
\* with 16,666,667 when the interval passed in is <= 0 and with the interval
\* passed in when it is > 0.
C10_TargetDurationDefaulted ==
    (call.op = "beginFrame" /\ mPerformanceHintSession.valid) =>
        LET pushed == { i \in 1..Len(call.trace) :
                          call.trace[i].fn = "updateTargetWorkDuration" }
        IN  /\ Cardinality(pushed) = 1
            /\ \A i \in pushed :
                  /\ call.arg <= 0 => call.trace[i].n = 16666667
                  /\ call.arg > 0 => call.trace[i].n = call.arg

C10_Witness ==
    /\ call.op = "beginFrame"
    /\ mPerformanceHintSession.valid
    /\ call.arg = 0
    /\ \E i \in 1..Len(call.trace) :
          call.trace[i].fn = "updateTargetWorkDuration" /\ call.trace[i].n = 16666667

\* The timing calls of the last operation.
TimingCalls ==
    { i \in 1..Len(call.trace) :
        call.trace[i].fn \in { "updateTargetWorkDuration", "reportActualWorkDuration" } }

\* C11: while the session is invalid, a beginFrame or preCommit issues no
\* updateTargetWorkDuration and no reportActualWorkDuration and ends
\* normally, and no step changes mStartTimeOfActualWork.
C11_InvalidSessionIsSilent ==
    /\ [](~mPerformanceHintSession.valid =>
            /\ ~crashed
            /\ call.op \in { "beginFrame", "preCommit" } => TimingCalls = {})
    /\ [][~mPerformanceHintSession.valid /\ ~mPerformanceHintSession'.valid
            => mStartTimeOfActualWork' = mStartTimeOfActualWork]_vars

C11_Witness ==
    /\ ~mPerformanceHintSession.valid
    /\ call.op = "preCommit"
    /\ nFrames = 2
    /\ now > 0
    /\ Len(call.trace) = 1

\* C12: with a valid session, preCommit reports a duration that is >= 0 and
\* is the clock reading at the call minus the time point the last beginFrame
\* recorded.
C12_ActualDurationNonNegative ==
    (call.op = "preCommit" /\ mPerformanceHintSession.valid) =>
        \E i \in 1..Len(call.trace) :
            /\ call.trace[i].fn = "reportActualWorkDuration"
            /\ call.trace[i].n >= 0
            /\ call.trace[i].n = call.arg - mStartTimeOfActualWork

\* The eglCreateImageKHR calls of the last operation, and whether an
\* attribute list holds a key with a value.
CreateImageCalls ==
    { i \in 1..Len(call.trace) : call.trace[i].fn = "eglCreateImageKHR" }

HasAttr(attrs, key, value) ==
    \E i \in 1..Len(attrs) - 1 :
        i % 2 = 1 /\ attrs[i] = key /\ attrs[i + 1] = value

\* Whether the buffer the last acquisition operation was given has the
\* protected-content usage bit.
BufferIsProtected ==
    IF call.op = "transformAcquiredImage"
    THEN AHardwareBuffer_describe(acquired[call.arg].source.image).protectedContent
    ELSE call.protectedContent

\* C13: every attribute list an acquisition operation passes to
\* eglCreateImageKHR holds EGL_IMAGE_PRESERVED_KHR with EGL_TRUE.
C13_ImagePreservedAlways ==
    call.op \in { "transformAcquiredImage", "createExternalImageTexture" } =>
        \A i \in CreateImageCalls :
            HasAttr(call.trace[i].attrs, "EGL_IMAGE_PRESERVED_KHR", "EGL_TRUE")

\* C14: the attribute list an acquisition operation passes to
\* eglCreateImageKHR holds EGL_PROTECTED_CONTENT_EXT with EGL_TRUE exactly
\* when the buffer has the protected-content usage bit.
C14_ProtectedContentFollowsUsage ==
    call.op \in { "transformAcquiredImage", "createExternalImageTexture" } =>
        \A i \in CreateImageCalls :
            HasAttr(call.trace[i].attrs, "EGL_PROTECTED_CONTENT_EXT", "EGL_TRUE")
               <=> BufferIsProtected

\* Whether eglCreateImageKHR returned EGL_NO_IMAGE_KHR in a call record.
CreationRejected(c) ==
    /\ c.op \in { "transformAcquiredImage", "createExternalImageTexture" }
    /\ \E i \in 1..Len(c.trace) :
          /\ c.trace[i].fn = "eglCreateImageKHR"
          /\ c.trace[i].param = "EGL_NO_IMAGE_KHR"

\* C15: when eglCreateImageKHR returns no image, the acquisition operation
\* returns failure and keeps nothing: createExternalImageTexture returns
\* nullptr, generated no texture name and freed its ExternalTexture record;
\* transformAcquiredImage returns the empty AcquiredImage and allocated no
\* Closure; and the image, texture-name and Closure tables are as they were
\* before the call.
C15_RejectedCreationKeepsNothing ==
    /\ [](CreationRejected(call) =>
            /\ ~HasCall(call.trace, "glGenTextures")
            /\ ~HasCall(call.trace, "new Closure")
            /\ call.op = "createExternalImageTexture" =>
                  /\ call.texture = 0
                  /\ externalTextures[Len(externalTextures)].state = "freed"
                  /\ externalTextures[Len(externalTextures)].id = 0
            /\ call.op = "transformAcquiredImage" =>
                  /\ call.image = EmptyAcquiredImage
                  /\ acquired[call.arg].result = EmptyAcquiredImage)
    /\ [][CreationRejected(call') =>
            /\ eglImages' = eglImages
            /\ glTextures' = glTextures
            /\ closures' = closures]_vars

\* Both operations met a rejected creation: the texture call first, whose
\* freed record never got a name, then the transform call.
C15_Witness ==
    /\ CreationRejected(call)
    /\ call.op = "transformAcquiredImage"
    /\ Len(call.trace) = 2
    /\ nTextureCalls = 1
    /\ externalTextures = << [id |-> 0, target |-> "", state |-> "freed"] >>
    /\ eglImages = << >>

\* The last operation was a run of the patched callback in which
\* eglDestroyImageKHR returned EGL_FALSE.
DestroyFailed ==
    /\ call.op = "patchedCallback"
    /\ \E i \in 1..Len(call.trace) :
          /\ call.trace[i].fn = "eglDestroyImageKHR"
          /\ call.trace[i].result = "EGL_FALSE"

\* The producer-callback events of the last operation.
CallbackEvents == { i \in 1..Len(call.trace) : call.trace[i].fn = "callback" }

\* C16: a run of the patched callback in which eglDestroyImageKHR returned
\* EGL_FALSE still calls the producer's callback exactly once, with the
\* source's image handle and user data, and still frees the Closure; when
\* it is the first run for that AcquiredImage the producer has been told
\* once in all.
C16_DestroyFailureStillReleases ==
    DestroyFailed =>
        LET k == call.arg
            source == acquired[k].source
        IN  /\ Cardinality(CallbackEvents) = 1
            /\ \A i \in CallbackEvents :
                  /\ call.trace[i].callee = source.callback
                  /\ call.trace[i].image = source.image
                  /\ call.trace[i].userData = source.userData
            /\ \E i \in 1..Len(call.trace) :
                  /\ call.trace[i].fn = "delete closure"
                  /\ call.trace[i].closure = acquired[k].result.userData
            /\ closures[acquired[k].result.userData.id].state = "freed"
            /\ acquired[k].invocations = 1 => acquired[k].released = 1

\* The display was terminated between the acquisition and the first run of
\* its callback, so the destroy failed on that first run.
C16_Witness ==
    /\ DestroyFailed
    /\ terminated
    /\ acquired[call.arg].invocations = 1
    /\ acquired[call.arg].released = 1
    /\ ~crashed

\* A step that is the construction of the platform object.
Constructing == ~constructed /\ constructed'

\* C17: construction sets ANGLE_FEATURE_OVERRIDES_DISABLED to
\* "preferSubmitAtFBOBoundary" when it was unset and leaves a value it
\* already had; no other step changes it; and once createDriver has run the
\* object was constructed and the variable is set.
C17_EnvironmentSetWithoutOverwrite ==
    /\ [][Constructing =>
            ANGLE_FEATURE_OVERRIDES_DISABLED' =
                IF ANGLE_FEATURE_OVERRIDES_DISABLED = "unset"
                THEN "preferSubmitAtFBOBoundary"
                ELSE ANGLE_FEATURE_OVERRIDES_DISABLED]_vars
    /\ [][~Constructing =>
            ANGLE_FEATURE_OVERRIDES_DISABLED' = ANGLE_FEATURE_OVERRIDES_DISABLED]_vars
    /\ [](driverCreated =>
            constructed /\ ANGLE_FEATURE_OVERRIDES_DISABLED # "unset")

\* The process had its own value, the object was constructed, and
\* createDriver has just run.
C17_Witness ==
    /\ call.op = "createDriver"
    /\ constructed
    /\ driverCreated
    /\ ANGLE_FEATURE_OVERRIDES_DISABLED = "userOverrides"

\* C18: a successful transformAcquiredImage returns the source's handler,
\* the patched callback, and as image the driver image the call created (an
\* EGLImageKHR of its own, not the hardware buffer); and a run of that
\* callback hands the producer the source's image handle and user data, not
\* the driver image or the Closure pointer.
C18_HandlerAndOriginalsPassedThrough ==
    /\ \A k \in 1..Len(acquired) :
          Succeeded(k) =>
              /\ acquired[k].result.handler = acquired[k].source.handler
              /\ acquired[k].result.image.kind = "EGLImageKHR"
              /\ acquired[k].result.image.id \in 1..Len(eglImages)
              /\ acquired[k].result.image # acquired[k].source.image
              /\ \A j \in 1..Len(acquired) :
                    (j # k /\ Succeeded(j)) =>
                        acquired[j].result.image # acquired[k].result.image
    /\ (call.op = "transformAcquiredImage" /\ call.arg \in 1..Len(acquired)
           /\ Succeeded(call.arg)) =>
          /\ call.image = acquired[call.arg].result
          /\ call.image.image = EGLImagePtr(Len(eglImages))
          /\ eglImages[Len(eglImages)] = "live"
    /\ (call.op = "patchedCallback" /\ Succeeded(call.arg)) =>
          \A i \in CallbackEvents :
              /\ call.trace[i].image = acquired[call.arg].source.image
              /\ call.trace[i].userData = acquired[call.arg].source.userData
              /\ call.trace[i].image # acquired[call.arg].result.image
              /\ call.trace[i].userData # acquired[call.arg].result.userData

\* The second acquisition succeeded with the second handler and its
\* callback has run once.
C18_Witness ==
    /\ call.op = "patchedCallback"
    /\ call.arg = 2
    /\ Succeeded(2)
    /\ acquired[2].source.handler = "handlerB"
    /\ acquired[2].invocations = 1
    /\ CallbackEvents # {}
    /\ ~crashed

\* The PlatformEGL calls of the last operation.
Delegations(fn) == { i \in 1..Len(call.trace) : call.trace[i].fn = fn }

\* C19: every beginFrame calls PlatformEGL::beginFrame exactly once, as its
\* last call, with the clock value and frame id it was given and with the
\* interval 16,666,667 when the session is valid and the interval given is
\* <= 0, the interval given otherwise; every preCommit calls
\* PlatformEGL::preCommit exactly once, as its last call; both whether or
\* not the session is valid.
C19_DelegatesOnceAfterTiming ==
    /\ call.op = "beginFrame" =>
          /\ Delegations("PlatformEGL::beginFrame") = { Len(call.trace) }
          /\ Delegations("PlatformEGL::preCommit") = {}
          /\ LET d == call.trace[Len(call.trace)]
             IN  /\ d.clock = call.clock
                 /\ d.frameId = call.frameId
                 /\ d.interval =
                       IF mPerformanceHintSession.valid /\ call.arg <= 0
                       THEN 16666667 ELSE call.arg
    /\ call.op = "preCommit" =>
          /\ Delegations("PlatformEGL::preCommit") = { Len(call.trace) }
          /\ Delegations("PlatformEGL::beginFrame") = {}

\* A second beginFrame on a valid session given the interval 0: the timing
\* call came first and the defaulted interval was passed on.
C19_Witness ==
    /\ call.op = "beginFrame"
    /\ mPerformanceHintSession.valid
    /\ nFrames = 2
    /\ call.arg = 0
    /\ call.clock = 3
    /\ call.frameId = 2
    /\ Len(call.trace) = 2
    /\ call.trace[2].interval = DefaultTargetNs

====
